---------------------------- MODULE Spec2Model ----------------------------
(***************************************************************************)
(* Model of generate.py, the static site generator of the wasp removal     *)
(* service site: the string helpers (slugify, clamp_title, esc), the page  *)
(* factory (make_page and the four page builders) and the driver main()    *)
(* with the filesystem it writes to.                                       *)
(*                                                                         *)
(* A Python str is modelled as a sequence of one-character strings, so     *)
(* that len(), slicing, strip() and the regular-expression substitutions   *)
(* are computed character by character as the code computes them.          *)
(***************************************************************************)
EXTENDS Integers, Sequences, FiniteSets, TLC

VARIABLES
  pc,        \* position of the running function (of main(), or of the helper applied)
  arg,       \* arguments of the helper applied (pure-function specifications)
  result,    \* value returned by the helper applied
  cities,    \* CITIES: the city list main() iterates over
  image,     \* picture.png next to generate.py: its content, or NoFile
  outDir,    \* CONFIG.output_dir on disk: exists, files (path -> content), dirs
  log,       \* filesystem steps of the current run, in the order they completed
  cityIdx,   \* index of the next city of the loop at generate.py:902
  urls,      \* local variable urls of main()
  summary,   \* what main() printed: <<page count>>, or <<>> before the print
  err,       \* exception that ended the run, or Nothing
  runNo,     \* number of the current invocation of main()
  before,    \* the output tree as the current invocation found it
  prevTree   \* {the output tree the previous invocation left}, or {} in the first

vars == <<pc, arg, result, cities, image, outDir, log, cityIdx, urls, summary, err,
          runNo, before, prevTree>>

runVars == <<cities, image, outDir, log, cityIdx, urls, summary, err, runNo, before,
             prevTree>>

Nothing == "Nothing"
NoFile == "NoFile"

-----------------------------------------------------------------------------
(* Bounds of the model. *)

\* longest slugify input drawn
MaxSlugLen == 4
\* longest clamp_title input drawn
MaxClampLen == 5
\* largest max_chars drawn for clamp_title
MaxClampMax == 4
\* longest city list drawn for a run of main()
MaxCities == 2
\* invocations of main() in a row
MaxRuns == 2
\* longest run of padding before the tail of a heading passed to make_page
MaxHeadingPad == 72
\* longest run of padding before the tail of a city name passed to city_page_html
MaxCityPad == 90
\* longest tail (spaces, markup characters) of a heading
MaxTailLen == 2

-----------------------------------------------------------------------------
(* CONFIG = SiteConfig(): the fields the pages and the driver read. *)

\* CONFIG.service_name (51 characters)
service_name ==
  <<"W","a","s","p"," ","N","e","s","t","/","W","a","s","p"," ","H","i","v","e"," ","R","e",
    "m","o","v","a","l"," ","&"," ","W","a","s","p"," ","C","o","n","t","r","o","l"," ","S",
    "e","r","v","i","c","e","s">>

\* CONFIG.brand_name
brand_name ==
  <<"W","a","s","p"," ","N","e","s","t"," ","R","e","m","o","v","a","l"," ","C","o","m","p",
    "a","n","y">>

\* CONFIG.cta_text
cta_text ==
  <<"G","e","t"," ","F","r","e","e"," ","E","s","t","i","m","a","t","e">>

\* CONFIG.cta_href
cta_href ==
  <<"m","a","i","l","t","o",":","h","e","l","l","o","@","e","x","a","m","p","l","e",".","c",
    "o","m","?","s","u","b","j","e","c","t","=","F","r","e","e","%","2","0","Q","u","o","t",
    "e","%","2","0","R","e","q","u","e","s","t">>

\* CONFIG.image_filename
image_filename ==
  <<"p","i","c","t","u","r","e",".","p","n","g">>

(* The city list of the repository. *)

CITIES == <<
  <<<<"L","o","s"," ","A","n","g","e","l","e","s">>,<<"C","A">>>>,
  <<<<"N","e","w"," ","Y","o","r","k">>,<<"N","Y">>>>,
  <<<<"C","h","i","c","a","g","o">>,<<"I","L">>>>,
  <<<<"H","o","u","s","t","o","n">>,<<"T","X">>>>,
  <<<<"P","h","o","e","n","i","x">>,<<"A","Z">>>>,
  <<<<"P","h","i","l","a","d","e","l","p","h","i","a">>,<<"P","A">>>>,
  <<<<"S","a","n"," ","A","n","t","o","n","i","o">>,<<"T","X">>>>,
  <<<<"S","a","n"," ","D","i","e","g","o">>,<<"C","A">>>>,
  <<<<"D","a","l","l","a","s">>,<<"T","X">>>>,
  <<<<"S","a","n"," ","J","o","s","e">>,<<"C","A">>>>,
  <<<<"A","u","s","t","i","n">>,<<"T","X">>>>,
  <<<<"J","a","c","k","s","o","n","v","i","l","l","e">>,<<"F","L">>>>,
  <<<<"F","o","r","t"," ","W","o","r","t","h">>,<<"T","X">>>>,
  <<<<"C","o","l","u","m","b","u","s">>,<<"O","H">>>>,
  <<<<"C","h","a","r","l","o","t","t","e">>,<<"N","C">>>>,
  <<<<"S","a","n"," ","F","r","a","n","c","i","s","c","o">>,<<"C","A">>>>,
  <<<<"I","n","d","i","a","n","a","p","o","l","i","s">>,<<"I","N">>>>,
  <<<<"S","e","a","t","t","l","e">>,<<"W","A">>>>,
  <<<<"D","e","n","v","e","r">>,<<"C","O">>>>,
  <<<<"W","a","s","h","i","n","g","t","o","n">>,<<"D","C">>>>
>>

(* Headings, grouped by page type. *)

H2_SHARED == <<
  <<"W","a","s","p"," ","N","e","s","t"," ","R","e","m","o","v","a","l">>,
  <<"W","a","s","p"," ","C","o","n","t","r","o","l">>,
  <<"W","a","s","p"," ","E","x","t","e","r","m","i","n","a","t","o","r">>,
  <<"P","a","p","e","r"," ","W","a","s","p"," ","N","e","s","t"," ","R","e","m","o","v","a",
    "l">>,
  <<"G","r","o","u","n","d"," ","W","a","s","p"," ","N","e","s","t"," ","R","e","m","o","v",
    "a","l">>,
  <<"W","a","s","p"," ","R","e","m","o","v","a","l">>
>>

H2_COST == <<
  <<"W","a","s","p"," ","N","e","s","t"," ","R","e","m","o","v","a","l"," ","C","o","s","t">>,
  <<"H","o","w"," ","M","u","c","h"," ","D","o","e","s"," ","I","t"," ","C","o","s","t"," ",
    "t","o"," ","R","e","m","o","v","e"," ","a"," ","W","a","s","p"," ","N","e","s","t">>,
  <<"C","o","s","t"," ","o","f"," ","W","a","s","p"," ","N","e","s","t"," ","R","e","m","o",
    "v","a","l">>,
  <<"W","a","s","p"," ","R","e","m","o","v","a","l"," ","C","o","s","t">>,
  <<"W","a","s","p"," ","N","e","s","t"," ","R","e","m","o","v","a","l"," ","P","r","i","c",
    "e">>,
  <<"H","o","r","n","e","t"," ","N","e","s","t"," ","R","e","m","o","v","a","l"," ","C","o",
    "s","t">>
>>

H2_HOWTO == <<
  <<"H","o","w"," ","t","o"," ","G","e","t"," ","R","i","d"," ","o","f"," ","W","a","s","p",
    " ","N","e","s","t">>,
  <<"H","o","w"," ","t","o"," ","R","e","m","o","v","e"," ","W","a","s","p"," ","N","e","s",
    "t">>,
  <<"R","e","m","o","v","e"," ","W","a","s","p"," ","N","e","s","t">>,
  <<"B","e","s","t"," ","T","i","m","e"," ","t","o"," ","S","p","r","a","y"," ","W","a","s",
    "p"," ","N","e","s","t">>,
  <<"W","a","s","p"," ","S","p","r","a","y">>,
  <<"W","h","a","t"," ","K","i","l","l","s"," ","W","a","s","p","s">>
>>

\* ALSO_MENTIONED[7]
ALSO_nest ==
  <<"n","e","s","t">>

\* ALSO_MENTIONED[4]
ALSO_wasp_stings ==
  <<"w","a","s","p"," ","s","t","i","n","g","s">>

\* ALSO_MENTIONED[5]
ALSO_price ==
  <<"p","r","i","c","e">>

\* ALSO_MENTIONED[2]
ALSO_spray_bottle ==
  <<"s","p","r","a","y"," ","b","o","t","t","l","e">>

(* Literals of the templates and of the page builders. *)

\* <h2>Next steps</h2> of footer_block
FooterH2 ==
  <<"N","e","x","t"," ","s","t","e","p","s">>

\* cost_callout_html: text before the city
CalloutPrefix ==
  <<"T","y","p","i","c","a","l"," ","c","o","s","t"," ","r","a","n","g","e"," ","i","n"," ">>

\* city_page_html: local_line before the city
ServingPrefix ==
  <<"S","e","r","v","i","n","g"," ">>

\* city_h1: between service and city
InWord ==
  <<" ","i","n"," ">>

\* between city and state
CommaSpace ==
  <<","," ">>

\* cost_page_html: h1
CostH1 ==
  <<"W","a","s","p"," ","N","e","s","t"," ","R","e","m","o","v","a","l"," ","C","o","s","t",
    " ","S","e","r","v","i","c","e","s">>

\* howto_page_html: h1
HowtoH1 ==
  <<"H","o","w"," ","t","o"," ","G","e","t"," ","R","i","d"," ","o","f"," ","W","a","s","p",
    " ","N","e","s","t"," ","S","e","r","v","i","c","e","s">>

\* homepage_html: description
HomeDescription ==
  <<"S","t","r","a","i","g","h","t"," ","a","n","s","w","e","r","s"," ","o","n"," ","w","a",
    "s","p"," ","n","e","s","t"," ","r","e","m","o","v","a","l"," ","a","n","d"," ","w","a",
    "s","p"," ","c","o","n","t","r","o","l",".">>

\* cost_page_html: description
CostDescription ==
  <<"T","y","p","i","c","a","l"," ","w","a","s","p"," ","n","e","s","t"," ","r","e","m","o",
    "v","a","l"," ","c","o","s","t"," ","r","a","n","g","e","s"," ","a","n","d"," ","w","h",
    "a","t"," ","c","h","a","n","g","e","s"," ","p","r","i","c","i","n","g",".">>

\* howto_page_html: description
HowtoDescription ==
  <<"C","l","e","a","r"," ","s","t","e","p","s"," ","f","o","r"," ","d","e","a","l","i","n",
    "g"," ","w","i","t","h"," ","a"," ","w","a","s","p"," ","n","e","s","t"," ","w","i","t",
    "h","o","u","t"," ","m","a","k","i","n","g"," ","i","t"," ","w","o","r","s","e",".">>

\* city_page_html: description before the city
CityDescriptionPrefix ==
  <<"W","a","s","p"," ","n","e","s","t"," ","r","e","m","o","v","a","l"," ","a","n","d"," ",
    "w","a","s","p"," ","c","o","n","t","r","o","l"," ","g","u","i","d","e"," ","w","i","t",
    "h"," ","l","o","c","a","l"," ","c","o","n","t","e","x","t"," ","f","o","r"," ">>

\* href and canonical path of the home page
HomeHref ==
  <<"/">>

\* href and canonical path of the cost page
CostHref ==
  <<"/","c","o","s","t","/">>

\* href and canonical path of the how-to page
HowtoHref ==
  <<"/","h","o","w","-","t","o","/">>

\* directory of the cost page under the output directory
CostDir ==
  <<"c","o","s","t">>

\* directory of the how-to page under the output directory
HowtoDir ==
  <<"h","o","w","-","t","o">>

\* nav_html: label
HomeLabel ==
  <<"H","o","m","e">>

\* nav_html: label
CostLabel ==
  <<"C","o","s","t">>

\* nav_html: label
HowtoLabel ==
  <<"H","o","w","-","T","o">>

\* names of the files main() writes
IndexHtml ==
  <<"i","n","d","e","x",".","h","t","m","l">>

RobotsTxt ==
  <<"r","o","b","o","t","s",".","t","x","t">>

SitemapXml ==
  <<"s","i","t","e","m","a","p",".","x","m","l">>

-----------------------------------------------------------------------------
(* Limits the code passes to clamp_title. *)

\* make_page: clamp_title(h1, 70)
TitleMax == 70
\* make_page: clamp_title(description, 155)
DescriptionMax == 155
\* city_h1: clamp_title(..., 70)
CityH1Max == 70

-----------------------------------------------------------------------------
(* Python str primitives. *)

Min(a, b) == IF a <= b THEN a ELSE b
Max(a, b) == IF a >= b THEN a ELSE b

SeqsUpTo(S, n) == UNION {[1..k -> S] : k \in 0..n}

\* characters str.strip() and str.rstrip() remove when called without argument
Whitespace == {" ", "\t", "\n"}

UpperCase == <<"A","B","C","D","E","F","G","H","I","J","K","L","M",
               "N","O","P","Q","R","S","T","U","V","W","X","Y","Z">>
LowerCase == <<"a","b","c","d","e","f","g","h","i","j","k","l","m",
               "n","o","p","q","r","s","t","u","v","w","x","y","z">>
Digits == {"0","1","2","3","4","5","6","7","8","9"}

\* the character class [a-z0-9] of the regular expression at generate.py:125
SlugChars == {LowerCase[i] : i \in 1..26} \cup Digits

\* the one character U+2026 (horizontal ellipsis) appended by clamp_title
Ellipsis == "..."

RECURSIVE LStripSet(_, _)
LStripSet(s, cs) ==
  IF s # <<>> /\ Head(s) \in cs THEN LStripSet(Tail(s), cs) ELSE s

RECURSIVE RStripSet(_, _)
RStripSet(s, cs) ==
  IF s # <<>> /\ s[Len(s)] \in cs THEN RStripSet(SubSeq(s, 1, Len(s) - 1), cs) ELSE s

\* s.strip(), s.rstrip(), s.strip("-")
StrStrip(s) == RStripSet(LStripSet(s, Whitespace), Whitespace)
StrRStrip(s) == RStripSet(s, Whitespace)
StrStripChars(s, cs) == RStripSet(LStripSet(s, cs), cs)

LowerChar(c) ==
  IF \E i \in 1..26 : UpperCase[i] = c
    THEN LowerCase[CHOOSE i \in 1..26 : UpperCase[i] = c]
    ELSE c

\* s.lower()
StrLower(s) == [i \in 1..Len(s) |-> LowerChar(s[i])]

\* s[:k], with Python's meaning of a negative k (count from the end)
SliceTo(s, k) ==
  IF k >= 0 THEN SubSeq(s, 1, Min(k, Len(s)))
            ELSE SubSeq(s, 1, Max(0, Len(s) + k))

\* "".join(parts): the parts are joined half by half, in order
RECURSIVE StrJoin(_)
StrJoin(parts) ==
  IF Len(parts) = 0 THEN <<>>
  ELSE IF Len(parts) = 1 THEN parts[1]
  ELSE LET h == Len(parts) \div 2
       IN  StrJoin(SubSeq(parts, 1, h)) \o StrJoin(SubSeq(parts, h + 1, Len(parts)))

ReSubAmp_bare(s) ==
  StrJoin([i \in 1..Len(s) |-> IF s[i] = "&" THEN <<"a", "n", "d">> ELSE <<s[i]>>])

\* re.sub(r"&", " and ", s)
ReSubAmp(s) ==
  StrJoin([i \in 1..Len(s) |-> IF s[i] = "&" THEN <<" ", "a", "n", "d", " ">> ELSE <<s[i]>>])

\* re.sub(r"[^a-z0-9]+", "-", s): every maximal run outside the class becomes
\* one "-", written where the run starts
ReSubNonSlug(s) ==
  StrJoin([i \in 1..Len(s) |->
             IF s[i] \in SlugChars THEN <<s[i]>>
             ELSE IF i = 1 \/ s[i - 1] \in SlugChars THEN <<"-">>
             ELSE <<>>])

\* re.sub(r"-{2,}", "-", s): every maximal run of two or more "-" becomes one
\* "-"; a single "-" stays as it is
ReSubHyphens(s) ==
  StrJoin([i \in 1..Len(s) |->
             IF s[i] # "-" THEN <<s[i]>>
             ELSE IF i = 1 \/ s[i - 1] # "-" THEN <<"-">>
             ELSE <<>>])

-----------------------------------------------------------------------------
(* HELPERS of generate.py. *)

slugify_keeps_edge_hyphens(s) ==
  ReSubHyphens(ReSubNonSlug(ReSubAmp(StrLower(StrStrip(s)))))

slugify(s) ==
  LET s1 == StrLower(StrStrip(s))
      s2 == ReSubAmp(s1)
      s3 == ReSubNonSlug(s2)
      s4 == StrStripChars(ReSubHyphens(s3), {"-"})
  IN  s4

city_state_slug(city, state) == slugify(city) \o <<"-">> \o slugify(state)

clamp_title(title, max_chars) ==
  IF Len(title) <= max_chars THEN title
  ELSE StrRStrip(SliceTo(title, max_chars - 1)) \o <<Ellipsis>>

-----------------------------------------------------------------------------
(* HTML BUILDING BLOCKS.  A fragment of markup is a sequence of elements,  *)
(* in document order; an element is its tag (with the class that tells it   *)
(* apart), its text as it stands in the markup (after esc) and its href.    *)
(* Fixed prose of a template that holds no markup character is kept as one  *)
(* piece (Lit), since nothing measures or rewrites it.                      *)

\* html.escape(s, quote=True), one character at a time
EscChar(c) ==
  CASE c = "&"  -> <<"&", "a", "m", "p", ";">>
    [] c = "<"  -> <<"&", "l", "t", ";">>
    [] c = ">"  -> <<"&", "g", "t", ";">>
    [] c = "\"" -> <<"&", "q", "u", "o", "t", ";">>
    [] c = "'"  -> <<"&", "#", "x", "2", "7", ";">>
    [] OTHER    -> <<c>>

esc(s) == StrJoin([i \in 1..Len(s) |-> EscChar(s[i])])

city_h1(service, city, state) ==
  clamp_title(service \o InWord \o city \o CommaSpace \o state, CityH1Max)

Lit(s) == <<s>>

Element(tag, text, href) == [tag |-> tag, text |-> text, href |-> href]

nav_item(current, href, label, key) ==
  Element(IF current = key THEN "a[aria-current]" ELSE "a", esc(label), esc(href))

nav_html(current) ==
  << nav_item(current, HomeHref, HomeLabel, "home"),
     nav_item(current, CostHref, CostLabel, "cost"),
     nav_item(current, HowtoHref, HowtoLabel, "howto"),
     Element("a.btn", esc(cta_text), esc(cta_href)) >>

base_html(title, canonical_path, description, current_nav, body) ==
  [ doc         |-> "html",
    title       |-> esc(title),
    description |-> esc(description),
    canonical   |-> esc(canonical_path),
    brand       |-> esc(brand_name),
    nav         |-> nav_html(current_nav),
    body        |-> body ]

header_block(h1, sub, pill, show_secondary_cta) ==
  << Element("span.pill", esc(pill), <<>>),
     Element("h1", esc(h1), <<>>),
     Element("p.sub", esc(sub), <<>>),
     Element("a.btn", esc(cta_text), esc(cta_href)) >>
  \o (IF show_secondary_cta
        THEN << Element("a.ghost", Lit("See typical pricing"), CostHref) >>
        ELSE << >>)

footer_block ==
  << Element("h2", FooterH2, <<>>),
     Element("p.sub", Lit("Ready to move forward? Request a free quote."), <<>>),
     Element("a.btn", esc(cta_text), esc(cta_href)),
     Element("a", HomeLabel, HomeHref),
     Element("a", CostLabel, CostHref),
     Element("a", HowtoLabel, HowtoHref),
     Element("div.small", esc(brand_name), <<>>) >>

page_shell(h1, sub, pill, inner_html, show_secondary_cta) ==
  header_block(h1, sub, pill, show_secondary_cta)
  \o << Element("img", <<>>, esc(<<"/">> \o image_filename)) >>
  \o inner_html
  \o footer_block

-----------------------------------------------------------------------------
(* CONTENT SECTIONS. *)

\* local_line = None
NoLocalLine == << >>

\* local_line is None or empty: `if local_line` is false for both
shared_sections_html(local_line) ==
  LET local == IF local_line # << >>
                 THEN << Element("span.muted", esc(local_line), <<>>) >>
                 ELSE << >>
  IN  << Element("h2", esc(H2_SHARED[1]), <<>>),
         Element("p", Lit("We remove a wasp nest by finding where the wasps enter ..."), <<>>) >>
      \o local
      \o << Element("p.muted", esc(ALSO_nest), <<>>),
            Element("h2", esc(H2_SHARED[2]), <<>>),
            Element("p", Lit("Wasp control is about preventing repeat activity ..."), <<>>),
            Element("h2", esc(H2_SHARED[3]), <<>>),
            Element("p", esc(ALSO_wasp_stings), <<>>),
            Element("h2", esc(H2_SHARED[4]), <<>>),
            Element("p", Lit("Paper wasp nest removal is often needed under eaves ..."), <<>>),
            Element("h2", esc(H2_SHARED[5]), <<>>),
            Element("p", Lit("Ground wasp nest removal is different ..."), <<>>),
            Element("h2", esc(H2_SHARED[6]), <<>>),
            Element("p", Lit("Wasp removal is the hands-on work ..."), <<>>) >>

cost_sections_html ==
  << Element("h2", esc(H2_COST[1]), <<>>),
     Element("p", Lit("Wasp nest removal cost depends mostly on access ..."), <<>>),
     Element("h2", esc(H2_COST[2]), <<>>),
     Element("p", Lit("Most homeowners pay between $cost_low and $cost_high ..."), <<>>),
     Element("h2", esc(H2_COST[3]), <<>>),
     Element("p", esc(ALSO_price), <<>>),
     Element("h2", esc(H2_COST[4]), <<>>),
     Element("p", Lit("Wasp removal cost can be lower when the nest is small ..."), <<>>),
     Element("h2", esc(H2_COST[5]), <<>>),
     Element("p", Lit("Wasp nest removal price is basically the same question ..."), <<>>),
     Element("h2", esc(H2_COST[6]), <<>>),
     Element("p", Lit("Hornet nest removal cost is often higher ..."), <<>>),
     Element("hr", <<>>, <<>>),
     Element("p.muted", Lit("Typical installed range: $cost_low-$cost_high ..."), <<>>) >>

howto_sections_html ==
  << Element("h2", esc(H2_HOWTO[1]), <<>>),
     Element("p", Lit("To get rid of a wasp nest, don't provoke it first ..."), <<>>),
     Element("h2", esc(H2_HOWTO[2]), <<>>),
     Element("p", esc(ALSO_wasp_stings), <<>>),
     Element("h2", esc(H2_HOWTO[3]), <<>>),
     Element("p", Lit("Remove wasp nest really means removing the source ..."), <<>>),
     Element("h2", esc(H2_HOWTO[4]), <<>>),
     Element("p", Lit("The best time to spray a wasp nest ..."), <<>>),
     Element("h2", esc(H2_HOWTO[5]), <<>>),
     Element("p", esc(ALSO_spray_bottle), <<>>),
     Element("h2", esc(H2_HOWTO[6]), <<>>),
     Element("p", Lit("What kills wasps depends on the product ..."), <<>>) >>

cost_callout_html_with_heading(city, state) ==
  << Element("h2", CalloutPrefix \o esc(city) \o CommaSpace \o esc(state), <<>>),
     Element("p", Lit("$cost_low-$cost_high for one nest in many homes ..."), <<>>),
     Element("a.btn", esc(cta_text), esc(cta_href)) >>

cost_callout_html(city, state) ==
  << Element("strong", CalloutPrefix \o esc(city) \o CommaSpace \o esc(state), <<>>),
     Element("p", Lit("$cost_low-$cost_high for one nest in many homes ..."), <<>>),
     Element("a.btn", esc(cta_text), esc(cta_href)) >>

-----------------------------------------------------------------------------
(* PAGE FACTORY. *)

make_page_title_unclamped(h1, canonical, description, nav_key, pill, sub, inner, show_secondary_cta) ==
  base_html(h1, canonical, clamp_title(description, DescriptionMax), nav_key,
            page_shell(clamp_title(h1, TitleMax), sub, pill, inner, show_secondary_cta))

make_page_description_unclamped(h1, canonical, description, nav_key, pill, sub, inner, show_secondary_cta) ==
  base_html(clamp_title(h1, TitleMax), canonical, description, nav_key,
            page_shell(clamp_title(h1, TitleMax), sub, pill, inner, show_secondary_cta))

make_page(h1, canonical, description, nav_key, pill, sub, inner, show_secondary_cta) ==
  LET h == clamp_title(h1, TitleMax)
      title == h
  IN  base_html(title, canonical, clamp_title(description, DescriptionMax), nav_key,
                page_shell(h, sub, pill, inner, show_secondary_cta))

city_path_without_state(city, state) == <<"/">> \o slugify(city) \o <<"/">>

\* the page path "/<slug>/" of a city entry, as homepage_html, city_page_html and
\* main each format it
city_path(city, state) == <<"/">> \o city_state_slug(city, state) \o <<"/">>

\* CITIES is read by homepage_html as a global: the variable cities
homepage_html ==
  LET h1 == service_name
      city_links ==
        [i \in 1..Len(cities) |->
           Element("li.a",
                   esc(cities[i][1]) \o CommaSpace \o esc(cities[i][2]),
                   esc(city_path(cities[i][1], cities[i][2])))]
      inner ==
        shared_sections_html(NoLocalLine)
        \o << Element("hr", <<>>, <<>>),
              Element("p.muted", Lit("Choose your city"), <<>>),
              Element("p.muted", Lit("Select a city page for the same guide ..."), <<>>) >>
        \o city_links
        \o << Element("hr", <<>>, <<>>),
              Element("a", Lit("Wasp Nest Removal Cost"), CostHref),
              Element("a", Lit("How to Get Rid of Wasp Nest"), HowtoHref) >>
  IN  make_page(h1, HomeHref, HomeDescription, "home", Lit("Main service page"),
                Lit("How removal works, what prevents repeat activity ..."), inner, TRUE)

city_page_html(city, state) ==
  LET inner ==
        cost_callout_html(city, state)
        \o shared_sections_html(ServingPrefix \o city \o CommaSpace \o state \o <<".">>)
        \o << Element("hr", <<>>, <<>>),
              Element("a", Lit("cost page"), CostHref) >>
  IN  make_page(city_h1(service_name, city, state),
                city_path(city, state),
                CityDescriptionPrefix \o city \o CommaSpace \o state \o <<".">>,
                "home", Lit("City service page"),
                Lit("Same core guide, plus a quick local note and a pricing snapshot."),
                inner, TRUE)

cost_page_html ==
  make_page(CostH1, CostHref, CostDescription, "cost", Lit("Cost page"),
            Lit("Simple ranges and the factors that usually move the price."),
            cost_sections_html, FALSE)

howto_page_html ==
  make_page(HowtoH1, HowtoHref, HowtoDescription, "howto", Lit("How-to page"),
            Lit("A practical guide that prioritizes safety ..."),
            howto_sections_html, FALSE)

-----------------------------------------------------------------------------
(* The state main() works on, at rest: used by the specifications that     *)
(* apply one helper and leave the filesystem alone.                         *)

NoTree == [exists |-> FALSE, files |-> <<>>, dirs |-> {}]

IdleFs ==
  /\ image = NoFile
  /\ outDir = NoTree
  /\ log = <<>>
  /\ cityIdx = 1
  /\ urls = <<>>
  /\ before = NoTree
  /\ summary = <<>>
  /\ err = Nothing
  /\ runNo = 0
  /\ prevTree = {}

IdleRun == cities = <<>> /\ IdleFs

-----------------------------------------------------------------------------
(* SpecSlug: slugify applied to every string over SlugAlphabet of at most  *)
(* MaxSlugLen characters, then applied to its own result.                  *)

SlugAlphabet == {"a", "B", "7", "&", " ", "-", "."}
SlugInputs == SeqsUpTo(SlugAlphabet, MaxSlugLen)

InitSlug ==
  /\ pc = "slugify"
  /\ arg \in {[s |-> x] : x \in SlugInputs}
  /\ result = Nothing
  /\ IdleRun

ApplySlugify ==
  /\ pc = "slugify"
  /\ result' = slugify(arg.s)
  /\ pc' = "slugify_done"
  /\ UNCHANGED <<arg, runVars>>

ApplySlugifyAgain ==
  /\ pc = "slugify_done"
  /\ arg' = [s |-> result]
  /\ result' = slugify(result)
  /\ pc' = "slugify_twice"
  /\ UNCHANGED runVars

NextSlug == ApplySlugify \/ ApplySlugifyAgain

SpecSlug == InitSlug /\ [][NextSlug]_vars

-----------------------------------------------------------------------------
(* SpecClamp: clamp_title applied to every string over ClampAlphabet of at *)
(* most MaxClampLen characters, with every max_chars in 0..MaxClampMax.    *)

ClampAlphabet == {"a", " "}
ClampInputs == SeqsUpTo(ClampAlphabet, MaxClampLen)

InitClamp ==
  /\ pc = "clamp_title"
  /\ arg \in {[title |-> t, max_chars |-> m] : t \in ClampInputs, m \in 0..MaxClampMax}
  /\ result = Nothing
  /\ IdleRun

ApplyClampTitle ==
  /\ pc = "clamp_title"
  /\ result' = clamp_title(arg.title, arg.max_chars)
  /\ pc' = "clamp_done"
  /\ UNCHANGED <<arg, runVars>>

NextClamp == ApplyClampTitle

SpecClamp == InitClamp /\ [][NextClamp]_vars

-----------------------------------------------------------------------------
(* SpecPage: each page builder applied once.  The home, cost and how-to    *)
(* pages take no argument; city_page_html is applied to every entry of     *)
(* CITIES and to city names of every length up to MaxCityPad (plus a tail   *)
(* with markup characters and spaces); make_page is applied directly to    *)
(* headings of every length up to MaxHeadingPad plus a tail.                *)

Pad(n) == [i \in 1..n |-> "x"]

TailAlphabet == {"a", " ", "&", "<"}

HeadingInputs ==
  {Pad(n) \o t : n \in 0..MaxHeadingPad, t \in SeqsUpTo(TailAlphabet, MaxTailLen)}

CityInputs ==
  {<<CITIES[i][1], CITIES[i][2]>> : i \in 1..Len(CITIES)}
  \cup {<<Pad(n) \o t, st>> : n \in 0..MaxCityPad, t \in SeqsUpTo(TailAlphabet, 1),
                              st \in {<<"T", "X">>, <<"<", "&">>}}

PageRequests ==
  {[kind |-> k, city |-> <<>>, state |-> <<>>, h1 |-> <<>>] : k \in {"home", "cost", "howto"}}
  \cup {[kind |-> "city", city |-> c[1], state |-> c[2], h1 |-> <<>>] : c \in CityInputs}
  \cup {[kind |-> "make_page", city |-> <<>>, state |-> <<>>, h1 |-> h] : h \in HeadingInputs}

InitPage ==
  /\ pc = "render"
  /\ arg \in PageRequests
  /\ result = Nothing
  /\ cities = CITIES
  /\ IdleFs

Rendered(page) ==
  /\ result' = page
  /\ pc' = "rendered"
  /\ UNCHANGED <<arg, runVars>>

RenderHome == pc = "render" /\ arg.kind = "home" /\ Rendered(homepage_html)

RenderCost == pc = "render" /\ arg.kind = "cost" /\ Rendered(cost_page_html)

RenderHowto == pc = "render" /\ arg.kind = "howto" /\ Rendered(howto_page_html)

RenderCity ==
  pc = "render" /\ arg.kind = "city" /\ Rendered(city_page_html(arg.city, arg.state))

RenderMakePage ==
  /\ pc = "render"
  /\ arg.kind = "make_page"
  /\ Rendered(make_page(arg.h1, CostHref, CostDescription, "cost", Lit("Cost page"),
                        Lit("Simple ranges and the factors that usually move the price."),
                        cost_sections_html, FALSE))

NextPage == RenderHome \/ RenderCost \/ RenderHowto \/ RenderCity \/ RenderMakePage

SpecPage == InitPage /\ [][NextPage]_vars

-----------------------------------------------------------------------------
(* ROBOTS + SITEMAP. *)

robots_txt ==
  [doc |-> "robots", allow |-> HomeHref, sitemap |-> <<"/">> \o SitemapXml]

\* one <url><loc>u</loc></url> per element of urls, in order, u as given
sitemap_xml(us) ==
  [doc |-> "sitemap", locs |-> [i \in 1..Len(us) |-> us[i]]]

-----------------------------------------------------------------------------
(* The filesystem under CONFIG.output_dir.  A tree is whether the directory *)
(* exists, its files (path -> content) and its subdirectories; a path is    *)
(* the subdirectory (<<>> for the output directory itself) and the name.    *)

FilePath(dir, name) == [dir |-> dir, name |-> name]

NoFiles == [p \in {} |-> Nothing]

EmptyTree == [exists |-> TRUE, files |-> NoFiles, dirs |-> {}]

\* content of a file whose write did not complete
Truncated == [doc |-> "truncated"]

Put(files, path, content) ==
  [q \in DOMAIN files \cup {path} |-> IF q = path THEN content ELSE files[q]]

Keep(files, paths) == [q \in paths |-> files[q]]

\* out_path.parent.mkdir(parents=True, exist_ok=True)
MkParent(tree, path) ==
  [tree EXCEPT !.exists = TRUE,
               !.dirs = IF path.dir = <<>> THEN @ ELSE @ \cup {path.dir}]

write_text(tree, path, content) ==
  LET made == MkParent(tree, path)
  IN  [made EXCEPT !.files = Put(@, path, content)]

\* trees an OSError inside write_text (or shutil.copyfile) can leave behind:
\* mkdir failed, or the file was created and its write did not complete
WriteFailures(tree, path) ==
  {tree, write_text(tree, path, Truncated)}

reset_output_dir_keeps_files(tree) == [tree EXCEPT !.exists = TRUE]

reset_output_dir(tree) == EmptyTree

\* trees an OSError inside reset_output_dir can leave behind: rmtree refused, or
\* stopped after removing a file, or completed before mkdir failed
ResetFailures(tree) ==
  (IF tree.exists
     THEN {tree} \cup {[tree EXCEPT !.files = Keep(@, DOMAIN @ \ {p})] : p \in DOMAIN tree.files}
     ELSE {})
  \cup {NoTree}

ImagePath == FilePath(<<>>, image_filename)

\* shutil.copyfile(src, out_dir / filename)
copy_site_image(tree, bytes) ==
  [tree EXCEPT !.files = Put(@, ImagePath, [doc |-> "image", bytes |-> bytes])]

-----------------------------------------------------------------------------
(* MAIN.  One action per filesystem call of main(), each with its failure: *)
(* an exception is not caught anywhere, so it ends the run.                 *)

HomeFile == FilePath(<<>>, IndexHtml)
CostFile == FilePath(CostDir, IndexHtml)
HowtoFile == FilePath(HowtoDir, IndexHtml)
CityFile_without_directory(city, state) == FilePath(<<>>, IndexHtml)

CityFile(city, state) == FilePath(city_state_slug(city, state), IndexHtml)
RobotsFile == FilePath(<<>>, RobotsTxt)
SitemapFile == FilePath(<<>>, SitemapXml)

\* the output directory itself, as the target of a step that names no file
OutRoot == FilePath(<<>>, <<>>)

Step(op, target) == [op |-> op, target |-> target]

main_urls_without_home ==
  <<CostHref, HowtoHref>>
  \o [i \in 1..Len(cities) |-> <<"/">> \o city_state_slug(cities[i][1], cities[i][2]) \o <<"/">>]

\* urls = ["/", "/cost/", "/how-to/"] + [f"/{city_state_slug(c, s)}/" for c, s in CITIES]
main_urls ==
  <<HomeHref, CostHref, HowtoHref>>
  \o [i \in 1..Len(cities) |-> <<"/">> \o city_state_slug(cities[i][1], cities[i][2]) \o <<"/">>]

Abort_swallowed(e, tree) ==
  /\ pc' = pc
  /\ err' = e
  /\ outDir' = tree
  /\ UNCHANGED <<arg, result, cities, image, log, cityIdx, urls, summary, runNo,
                 before, prevTree>>

Abort(e, tree) ==
  /\ pc' = "aborted"
  /\ err' = e
  /\ outDir' = tree
  /\ UNCHANGED <<arg, result, cities, image, log, cityIdx, urls, summary, runNo,
                 before, prevTree>>

\* a step completed: the tree it leaves, its entry in the log, the next position
Done(tree, step, next) ==
  /\ outDir' = tree
  /\ log' = Append(log, step)
  /\ pc' = next
  /\ UNCHANGED <<arg, result, cities, image, urls, summary, err, runNo, before, prevTree>>

ResetOutputDir ==
  /\ pc = "reset"
  /\ \/ Done(reset_output_dir(outDir), Step("reset", OutRoot), "copy") /\ UNCHANGED cityIdx
     \/ \E t \in ResetFailures(outDir) : Abort("OSError", t)

CopyImageMissing_ignored ==
  /\ pc = "copy"
  /\ image = NoFile
  /\ Done(outDir, Step("copy", ImagePath), "home")
  /\ UNCHANGED cityIdx

CopyImageMissing ==
  /\ pc = "copy"
  /\ image = NoFile
  /\ Abort("FileNotFoundError", outDir)

CopySiteImage ==
  /\ pc = "copy"
  /\ image # NoFile
  /\ \/ Done(copy_site_image(outDir, image), Step("copy", ImagePath), "home")
        /\ UNCHANGED cityIdx
     \/ \E t \in WriteFailures(outDir, ImagePath) : Abort("OSError", t)

\* write_text(path, content) followed by the next statement of main, or its failure
WriteStep(path, content, next) ==
  \/ Done(write_text(outDir, path, content), Step("write", path), next)
  \/ \E t \in WriteFailures(outDir, path) : Abort("OSError", t)

WriteHome ==
  pc = "home" /\ WriteStep(HomeFile, homepage_html, "cost") /\ UNCHANGED cityIdx

WriteCost ==
  pc = "cost" /\ WriteStep(CostFile, cost_page_html, "howto") /\ UNCHANGED cityIdx

WriteHowto ==
  pc = "howto" /\ WriteStep(HowtoFile, howto_page_html, "city") /\ cityIdx' = 1

WriteCity ==
  /\ pc = "city"
  /\ cityIdx <= Len(cities)
  /\ LET city == cities[cityIdx][1]
         state == cities[cityIdx][2]
     IN  WriteStep(CityFile(city, state), city_page_html(city, state), "city")
  /\ cityIdx' = IF pc' = "city" THEN cityIdx + 1 ELSE cityIdx

WriteRobots_after_first_city ==
  /\ pc = "city"
  /\ cityIdx > 1 \/ cities = <<>>
  /\ \/ /\ outDir' = write_text(outDir, RobotsFile, robots_txt)
        /\ log' = Append(log, Step("write", RobotsFile))
        /\ pc' = "sitemap"
        /\ UNCHANGED err
     \/ \E t \in WriteFailures(outDir, RobotsFile) :
          pc' = "aborted" /\ err' = "OSError" /\ outDir' = t /\ UNCHANGED log
  /\ urls' = main_urls
  /\ UNCHANGED <<arg, result, cities, image, cityIdx, summary, runNo, before, prevTree>>

\* the loop over CITIES is exhausted: urls is computed, then robots.txt is written
WriteRobots ==
  /\ pc = "city"
  /\ cityIdx > Len(cities)
  /\ \/ /\ outDir' = write_text(outDir, RobotsFile, robots_txt)
        /\ log' = Append(log, Step("write", RobotsFile))
        /\ pc' = "sitemap"
        /\ UNCHANGED err
     \/ \E t \in WriteFailures(outDir, RobotsFile) :
          pc' = "aborted" /\ err' = "OSError" /\ outDir' = t /\ UNCHANGED log
  /\ urls' = main_urls
  /\ UNCHANGED <<arg, result, cities, image, cityIdx, summary, runNo, before, prevTree>>

WriteSitemap ==
  pc = "sitemap" /\ WriteStep(SitemapFile, sitemap_xml(urls), "print") /\ UNCHANGED cityIdx

\* print(f"... Generated {len(urls)} pages into: ...")
PrintSummary ==
  /\ pc = "print"
  /\ summary' = <<Len(urls)>>
  /\ log' = Append(log, Step("print", OutRoot))
  /\ pc' = "done"
  /\ UNCHANGED <<arg, result, cities, image, outDir, cityIdx, urls, err, runNo, before,
                 prevTree>>

(* main() is invoked again after a run that completed, with the same       *)
(* configuration, city list and image.  Between the two runs anything may  *)
(* have been put into the output directory: the new run starts from the    *)
(* tree the previous one left, possibly with foreign files added to it.    *)

StaleFile == [doc |-> "stale"]

\* files found in the output directory that no run of this program wrote
ForeignFiles ==
  { NoFiles,
    [p \in {FilePath(<<"o", "l", "d">>, IndexHtml)} |-> StaleFile],
    [p \in {HomeFile, SitemapFile, FilePath(<<>>, <<"n", "o", "t", "e", "s">>)} |-> StaleFile] }

WithForeign(tree, ff) ==
  [exists |-> TRUE,
   files  |-> [q \in DOMAIN tree.files \cup DOMAIN ff |->
                 IF q \in DOMAIN ff THEN ff[q] ELSE tree.files[q]],
   dirs   |-> tree.dirs \cup {q.dir : q \in {x \in DOMAIN ff : x.dir # <<>>}}]

\* what the output directory may hold before the first run
PriorTrees == {NoTree} \cup {WithForeign(EmptyTree, ff) : ff \in ForeignFiles}

Reinvoke ==
  /\ pc = "done"
  /\ runNo < MaxRuns
  /\ \E ff \in ForeignFiles :
       LET start == IF ff = NoFiles THEN outDir ELSE WithForeign(outDir, ff)
       IN  outDir' = start /\ before' = start
  /\ prevTree' = {outDir}
  /\ pc' = "reset"
  /\ log' = <<>>
  /\ cityIdx' = 1
  /\ urls' = <<>>
  /\ summary' = <<>>
  /\ err' = Nothing
  /\ runNo' = runNo + 1
  /\ UNCHANGED <<arg, result, cities, image>>

\* city entries the lists are drawn from: two that differ only in letter case,
\* one with a space and markup characters, one whose slug is how-to
CityEntries ==
  { << <<"A", "b">>, <<"T", "X">> >>,
    << <<"a", "b">>, <<"t", "x">> >>,
    << <<"S", " ", "&", "<">>, <<"N", "Y">> >>,
    << <<"H", "o", "w">>, <<"T", "O">> >> }

Init ==
  /\ pc = "reset"
  /\ arg = Nothing
  /\ result = Nothing
  /\ cities \in SeqsUpTo(CityEntries, MaxCities)
  /\ image \in {NoFile, "png-bytes"}
  /\ outDir \in PriorTrees
  /\ before = outDir
  /\ log = <<>>
  /\ cityIdx = 1
  /\ urls = <<>>
  /\ summary = <<>>
  /\ err = Nothing
  /\ runNo = 1
  /\ prevTree = {}

Next ==
  \/ ResetOutputDir
  \/ CopyImageMissing
  \/ CopySiteImage
  \/ WriteHome
  \/ WriteCost
  \/ WriteHowto
  \/ WriteCity
  \/ WriteRobots
  \/ WriteSitemap
  \/ PrintSummary
  \/ Reinvoke

Spec == Init /\ [][Next]_vars

-----------------------------------------------------------------------------
(* Reading a rendered page back, as an HTML parser does: the elements of a *)
(* tag in document order, and the text of an element with its character    *)
(* references decoded.                                                      *)

EntityTable ==
  { << <<"&", "a", "m", "p", ";">>, "&" >>,
    << <<"&", "l", "t", ";">>, "<" >>,
    << <<"&", "g", "t", ";">>, ">" >>,
    << <<"&", "q", "u", "o", "t", ";">>, "\"" >>,
    << <<"&", "#", "x", "2", "7", ";">>, "'" >> }

IsPrefix(p, s) == Len(p) <= Len(s) /\ SubSeq(s, 1, Len(p)) = p

\* the entities that start at position i of m (at most one: every entity
\* starts with "&", ends with ";" and has neither character in between)
EntityAt(m, i) ==
  {e \in EntityTable : i + Len(e[1]) - 1 <= Len(m) /\ SubSeq(m, i, i + Len(e[1]) - 1) = e[1]}

InsideEntity(m, i) ==
  \E j \in Max(1, i - 5)..(i - 1) : \E e \in EntityAt(m, j) : j + Len(e[1]) > i

TextOf(m) ==
  StrJoin([i \in 1..Len(m) |->
             IF EntityAt(m, i) # {} THEN <<(CHOOSE e \in EntityAt(m, i) : TRUE)[2]>>
             ELSE IF InsideEntity(m, i) THEN <<>>
             ELSE <<m[i]>>])

ElementsOf(page, tag) == SelectSeq(page.body, LAMBDA n : n.tag = tag)

\* the texts of the <h2> elements of a page, in document order
H2Seq(page) ==
  LET hs == ElementsOf(page, "h2") IN [i \in 1..Len(hs) |-> TextOf(hs[i].text)]

H2Set(page) == {H2Seq(page)[i] : i \in 1..Len(H2Seq(page))}

-----------------------------------------------------------------------------
(* Claims about make_page. *)

\* C1: on every page make_page produces, the text of <title> is the text of the
\* page's one <h1>, in the markup and as displayed, and is at most 70 characters
\* long whatever heading was passed in.
C1_TitleIsH1Within70 ==
  pc = "rendered" =>
    LET h1s == ElementsOf(result, "h1")
    IN  /\ Len(h1s) = 1
        /\ result.title = h1s[1].text
        /\ TextOf(result.title) = TextOf(h1s[1].text)
        /\ Len(TextOf(result.title)) <= 70

\* the page of San Francisco, CA was rendered: its heading has 72 characters with
\* an "&" in it, and was cut to 69 characters and the ellipsis
C1_Witness ==
  /\ pc = "rendered"
  /\ arg.kind = "city"
  /\ arg.city = CITIES[16][1]
  /\ Len(service_name \o InWord \o arg.city \o CommaSpace \o arg.state) = 72
  /\ Len(TextOf(result.title)) = 70
  /\ TextOf(result.title)[70] = Ellipsis
  /\ Len(result.title) > 70

-----------------------------------------------------------------------------
(* Claims about the pages a run writes. *)

\* the rendered pages the output directory holds
RenderedPages ==
  {outDir.files[p] : p \in {q \in DOMAIN outDir.files : outDir.files[q].doc = "html"}}

\* the page type, read off the page's own label: the home page and the city pages
\* form one type, the cost page and the how-to page one each
PageType(page) ==
  LET pill == ElementsOf(page, "span.pill")[1].text
  IN  IF pill \in {Lit("Main service page"), Lit("City service page")} THEN "shared"
      ELSE IF pill = Lit("Cost page") THEN "cost"
      ELSE "howto"

\* C2: no <h2> text of a rendered page of one of the three page types (home and
\* city, cost, how-to) appears in a rendered page of another type.
C2_H2SetsDisjoint ==
  \A p, q \in RenderedPages :
    PageType(p) # PageType(q) => H2Set(p) \cap H2Set(q) = {}

\* C3: the home page and every city page, for any city entry, expose the same
\* ordered sequence of <h2> headings.
C3_HomeAndCitySameH2Seq ==
  Cardinality({H2Seq(p) : p \in {q \in RenderedPages : PageType(q) = "shared"}}) <= 1

\* a run completed that wrote the home page and the page of a city whose name
\* holds markup characters, next to another city page
C3_Witness ==
  /\ pc = "done"
  /\ Len(cities) = 2
  /\ cities[1][1] = <<"S", " ", "&", "<">>
  /\ cities[2][1] = <<"H", "o", "w">>
  /\ Cardinality({p \in RenderedPages : PageType(p) = "shared"}) = 3

-----------------------------------------------------------------------------
(* Claims about a run of main(). *)

UrlOf(path) == IF path.dir = <<>> THEN <<"/">> ELSE <<"/">> \o path.dir \o <<"/">>

\* the page writes of the current run, in order
PageWrites == SelectSeq(log, LAMBDA s : s.op = "write" /\ s.target.name = IndexHtml)

WrittenUrls == {UrlOf(PageWrites[i].target) : i \in 1..Len(PageWrites)}

SitemapLocs == outDir.files[SitemapFile].locs

\* C7: after a successful run sitemap.xml holds exactly one <url> entry for each
\* page path written during the run and none for a path that was not written,
\* for any city list.
C7_OneEntryPerWrittenPath ==
  pc = "done" =>
    /\ \A u \in WrittenUrls :
         Cardinality({i \in 1..Len(SitemapLocs) : SitemapLocs[i] = u}) = 1
    /\ \A i \in 1..Len(SitemapLocs) : SitemapLocs[i] \in WrittenUrls

\* C7 (amended): after a successful run sitemap.xml holds one <url> entry per page
\* write of the run, in write order: a path is listed as many times as it was
\* written, and no path is listed that was not written.
C7_OneEntryPerPageWrite ==
  pc = "done" =>
    /\ outDir.files[SitemapFile].doc = "sitemap"
    /\ Len(SitemapLocs) = Len(PageWrites)
    /\ \A i \in 1..Len(SitemapLocs) : SitemapLocs[i] = UrlOf(PageWrites[i].target)

\* a run completed for two city entries that share a slug: the path is written
\* twice and listed twice
C7_Witness ==
  /\ pc = "done"
  /\ Len(cities) = 2
  /\ cities[1] # cities[2]
  /\ Len(SitemapLocs) = 5
  /\ SitemapLocs[4] = SitemapLocs[5]

\* C8: if the image is missing the run aborts with the missing-file error before
\* any page, robots.txt or sitemap.xml is written, and at the abort the output
\* directory exists and is empty, whatever it held before the run.
C8_MissingImageAborts ==
  /\ image = NoFile =>
       /\ pc \in {"reset", "copy", "aborted"}
       /\ \A i \in 1..Len(log) : log[i].op # "write"
       /\ pc = "aborted" /\ log # <<>> => err = "FileNotFoundError"
  /\ pc = "aborted" /\ err = "FileNotFoundError" =>
       /\ image = NoFile
       /\ log = <<Step("reset", OutRoot)>>
       /\ outDir = EmptyTree

\* the run found foreign files in the output directory and aborted on the
\* missing image
C8_Witness ==
  /\ pc = "aborted"
  /\ err = "FileNotFoundError"
  /\ DOMAIN before.files # {}
  /\ outDir = EmptyTree

\* the files the current run has put into the output directory
RunTargets == {log[i].target : i \in {j \in 1..Len(log) : log[j].op \in {"copy", "write"}}}

\* C9: after a successful run the output directory holds what this run wrote and
\* nothing else, whatever it held before; a second run in a row leaves the very
\* tree the first one left, file for file.
C9_OutputIndependentOfPrior ==
  pc = "done" =>
    /\ outDir.exists
    /\ DOMAIN outDir.files = RunTargets
    /\ outDir.dirs = {p.dir : p \in {q \in RunTargets : q.dir # <<>>}}
    /\ \A p \in DOMAIN outDir.files : outDir.files[p].doc \notin {"stale", "truncated"}
    /\ \A t \in prevTree : outDir = t

\* a second run completed that had found foreign files added to the tree of the
\* first
C9_Witness ==
  /\ pc = "done"
  /\ runNo = 2
  /\ before \notin prevTree
  /\ \E p \in DOMAIN before.files : before.files[p].doc = "stale"
  /\ outDir \in prevTree

\* the order of the filesystem steps of main() for the city list
ExpectedOrder ==
  << Step("reset", OutRoot), Step("copy", ImagePath), Step("write", HomeFile),
     Step("write", CostFile), Step("write", HowtoFile) >>
  \o [i \in 1..Len(cities) |-> Step("write", CityFile(cities[i][1], cities[i][2]))]
  \o << Step("write", RobotsFile), Step("write", SitemapFile), Step("print", OutRoot) >>

\* C10: the steps of a run complete in the order reset, image copy, home page,
\* cost page, how-to page, city pages in list order, robots.txt, sitemap.xml,
\* summary; no page is written before the reset, and sitemap.xml is written only
\* after every page it lists.
C10_StepsInOrder ==
  /\ IsPrefix(log, ExpectedOrder)
  /\ pc = "done" => log = ExpectedOrder /\ summary # <<>>
  /\ summary # <<>> => pc = "done"
  /\ \A i \in 1..Len(log) :
       log[i].op = "write" => \E j \in 1..(i - 1) : log[j].op = "reset"
  /\ \A i \in 1..Len(log) :
       log[i] = Step("write", SitemapFile) =>
         \A k \in 1..Len(SitemapLocs) :
           \E j \in 1..(i - 1) : log[j].op = "write" /\ UrlOf(log[j].target) = SitemapLocs[k]

\* a run over two cities completed all ten steps
C10_Witness ==
  /\ pc = "done"
  /\ Len(cities) = 2
  /\ Len(log) = 10

-----------------------------------------------------------------------------
(* Claims about the paths of the city pages. *)

\* slug and page path of a city entry, as the claims word them
EntrySlug(e) == slugify(e[1]) \o <<"-">> \o slugify(e[2])

EntryPath(e) == <<"/">> \o EntrySlug(e) \o <<"/">>

EntryFile(e) == FilePath(EntrySlug(e), IndexHtml)

\* C11: for every city entry the run writes that city's page at
\* <output>/<slug>/index.html with slug = slugify(city)-slugify(state), and the
\* canonical path inside that page, the city's link on the home page and the
\* city's sitemap entry are all exactly /<slug>/.
C11_CityPathsAgree ==
  /\ pc = "city" /\ cityIdx > 1 =>
       LET e == cities[cityIdx - 1]
           page == outDir.files[EntryFile(e)]
       IN  /\ log[Len(log)] = Step("write", EntryFile(e))
           /\ EntryFile(e) \in DOMAIN outDir.files
           /\ page.doc = "html"
           /\ ElementsOf(page, "strong")[1].text
                = CalloutPrefix \o esc(e[1]) \o CommaSpace \o esc(e[2])
           /\ page.canonical = EntryPath(e)
           /\ TextOf(page.canonical) = EntryPath(e)
  /\ \A i \in 1..Len(log) :
       log[i] = Step("write", HomeFile) =>
         LET links == ElementsOf(outDir.files[HomeFile], "li.a")
         IN  /\ Len(links) = Len(cities)
             /\ \A k \in 1..Len(cities) :
                  /\ links[k].href = EntryPath(cities[k])
                  /\ TextOf(links[k].text) = cities[k][1] \o CommaSpace \o cities[k][2]
  /\ pc = "done" =>
       /\ Len(SitemapLocs) = 3 + Len(cities)
       /\ \A k \in 1..Len(cities) :
            /\ SitemapLocs[3 + k] = EntryPath(cities[k])
            /\ \E i \in 1..Len(log) : log[i] = Step("write", EntryFile(cities[k]))

\* a run completed for a city whose name holds a space and markup characters:
\* its page is at s-and-ny/index.html and declares /s-and-ny/
C11_Witness ==
  /\ pc = "done"
  /\ Len(cities) = 2
  /\ cities[2][1] = <<"S", " ", "&", "<">>
  /\ EntryFile(cities[2]) \in DOMAIN outDir.files
  /\ outDir.files[EntryFile(cities[2])].canonical
       = <<"/", "s", "-", "a", "n", "d", "-", "n", "y", "/">>
  /\ SitemapLocs[5] = <<"/", "s", "-", "a", "n", "d", "-", "n", "y", "/">>

-----------------------------------------------------------------------------
(* Claims about the meta description. *)

\* C12: on every generated page the meta description is at most 155 characters
\* long, whatever city and state names are substituted into it.
C12_DescriptionWithin155 ==
  pc = "rendered" => Len(TextOf(result.description)) <= 155

\* a city page was rendered whose description, with the names substituted, has
\* more than 155 characters, markup characters among them: it was cut to 154
\* characters and the ellipsis
C12_Witness ==
  /\ pc = "rendered"
  /\ arg.kind = "city"
  /\ arg.state = <<"<", "&">>
  /\ Len(CityDescriptionPrefix \o arg.city \o CommaSpace \o arg.state \o <<".">>) > 155
  /\ Len(TextOf(result.description)) = 155
  /\ TextOf(result.description)[155] = Ellipsis

-----------------------------------------------------------------------------
(* Claims about failures. *)

\* the files a completed run must have written, each with its kind of content
AllWritten ==
  /\ \A f \in {HomeFile, CostFile, HowtoFile} \cup {EntryFile(cities[k]) : k \in 1..Len(cities)} :
       /\ f \in DOMAIN outDir.files
       /\ outDir.files[f].doc = "html"
       /\ \E i \in 1..Len(log) : log[i] = Step("write", f)
  /\ RobotsFile \in DOMAIN outDir.files /\ outDir.files[RobotsFile].doc = "robots"
  /\ SitemapFile \in DOMAIN outDir.files /\ outDir.files[SitemapFile].doc = "sitemap"

\* C13: a run is one forward pass without retry: once a filesystem operation has
\* failed no later step is performed, no file is written and no summary printed;
\* the summary is printed only when every page, robots.txt and sitemap.xml have
\* been written.
C13_FailureEndsRun ==
  /\ err # Nothing => pc = "aborted" /\ summary = <<>>
  /\ pc = "aborted" => err # Nothing /\ ~ENABLED Next
  /\ summary # <<>> => err = Nothing /\ AllWritten

\* the write of the how-to page failed part of the way, after the home and cost
\* pages had been written: the run stopped there
C13_Witness ==
  /\ pc = "aborted"
  /\ err = "OSError"
  /\ log = <<Step("reset", OutRoot), Step("copy", ImagePath), Step("write", HomeFile),
             Step("write", CostFile)>>
  /\ HowtoFile \in DOMAIN outDir.files
  /\ outDir.files[HowtoFile] = Truncated
  /\ Len(cities) = 2

-----------------------------------------------------------------------------
(* Claims about overwriting. *)

\* no file was copied or written twice in the current run
NoOverwrite ==
  \A i, j \in 1..Len(log) :
    i < j /\ log[i].op \in {"copy", "write"} /\ log[j].op \in {"copy", "write"}
      => log[i].target # log[j].target

EntriesDistinct ==
  \A i, j \in 1..Len(cities) : i < j => cities[i] # cities[j]

SlugsDistinct ==
  /\ \A i, j \in 1..Len(cities) : i < j => EntrySlug(cities[i]) # EntrySlug(cities[j])
  /\ \A i \in 1..Len(cities) : EntrySlug(cities[i]) # HowtoDir

\* C14: for every city list whose (city, state) entries are pairwise distinct,
\* each output file is written once per run: the paths of the home, cost, how-to
\* and city pages are pairwise distinct and no page is overwritten.
C14_DistinctEntriesNoOverwrite ==
  EntriesDistinct => NoOverwrite

\* C14 (amended): for every city list whose entries have pairwise distinct slugs
\* slugify(city)-slugify(state), none of them how-to, each output file is written
\* once per run and a completed run leaves one page per entry next to the home,
\* cost and how-to pages.
C14_DistinctSlugsNoOverwrite ==
  SlugsDistinct =>
    /\ NoOverwrite
    /\ pc = "done" => Cardinality(RenderedPages) = 3 + Len(cities)

\* a run completed for two entries with different slugs
C14_Witness ==
  /\ pc = "done"
  /\ Len(cities) = 2
  /\ SlugsDistinct
  /\ cities[1][1] = <<"A", "b">>
  /\ cities[2][1] = <<"S", " ", "&", "<">>
  /\ Cardinality(RenderedPages) = 5

-----------------------------------------------------------------------------
(* Claims about clamp_title. *)

\* C4: clamp_title(s, max) returns a string whose length never exceeds max, for
\* every string s and every max >= 0.
C4_ClampWithinMax ==
  pc = "clamp_done" => Len(result) <= arg.max_chars

-----------------------------------------------------------------------------
(* Claims about slugify. *)

SlugShape(r) ==
  /\ \A i \in 1..Len(r) : r[i] \in SlugChars \cup {"-"}
  /\ r # <<>> => r[1] # "-" /\ r[Len(r)] # "-"
  /\ \A i \in 1..(Len(r) - 1) : ~(r[i] = "-" /\ r[i + 1] = "-")

\* C5: slugify(x) consists only of lowercase letters, digits and single internal
\* hyphens (possibly the empty string), and slugify(slugify(x)) = slugify(x).
C5_SlugifyIdempotentShape ==
  /\ pc \in {"slugify_done", "slugify_twice"} => SlugShape(result)
  /\ pc = "slugify_twice" => result = arg.s

\* slugify was applied twice to an input that needed rewriting into two words
C5_Witness ==
  /\ pc = "slugify_twice"
  /\ result = <<"a", "-", "b">>

(* The pipeline of the slug normalizer as the specification words it, with *)
(* the replacement of "&" as a parameter.  It is computed on its own terms: *)
(* trimming by position, and "collapse runs, then strip hyphens" as joining *)
(* the maximal alphanumeric words with single hyphens.                      *)

RefTrim(s) ==
  LET keep == {i \in 1..Len(s) : s[i] \notin Whitespace}
  IN  IF keep = {} THEN <<>>
      ELSE SubSeq(s, CHOOSE i \in keep : \A j \in keep : i <= j,
                     CHOOSE i \in keep : \A j \in keep : i >= j)

RECURSIVE RefFlatten(_)
RefFlatten(ss) == IF ss = <<>> THEN <<>> ELSE Head(ss) \o RefFlatten(Tail(ss))

RefReplaceAmp(s, w) ==
  RefFlatten([i \in 1..Len(s) |-> IF s[i] = "&" THEN w ELSE <<s[i]>>])

\* start positions of the maximal runs of alphanumeric characters of s
RefWordStarts(s) ==
  {i \in 1..Len(s) : s[i] \in SlugChars /\ (i = 1 \/ s[i - 1] \notin SlugChars)}

RefWordAt(s, i) ==
  SubSeq(s, i, CHOOSE j \in i..Len(s) :
                 /\ \A k \in i..j : s[k] \in SlugChars
                 /\ (j = Len(s) \/ s[j + 1] \notin SlugChars))

RECURSIVE RefJoin(_, _)
RefJoin(s, starts) ==
  IF starts = {} THEN <<>>
  ELSE LET i == CHOOSE x \in starts : \A y \in starts : x <= y
           rest == starts \ {i}
       IN  RefWordAt(s, i) \o (IF rest = {} THEN <<>> ELSE <<"-">> \o RefJoin(s, rest))

RefPipeline(s, w) ==
  LET t == RefReplaceAmp(StrLower(RefTrim(s)), w)
  IN  RefJoin(t, RefWordStarts(t))

\* C6: for every input, slugify's result equals the reference pipeline: trim,
\* lowercase, replace each "&" with the letters "and", collapse every run of
\* non-alphanumeric characters to one hyphen, strip leading and trailing hyphens.
C6_SlugifyIsClaimedPipeline ==
  pc = "slugify_done" => result = RefPipeline(arg.s, <<"a", "n", "d">>)

\* C6 (amended): the same pipeline with each "&" replaced by " and ", the word
\* and with a space on each side, so that "&" separates words.
C6_SlugifyIsPipeline ==
  pc = "slugify_done" => result = RefPipeline(arg.s, <<" ", "a", "n", "d", " ">>)

\* slugify was applied to an input with "&" between two alphanumeric characters
C6_Witness ==
  /\ pc = "slugify_done"
  /\ arg.s = <<"a", "&", "B">>
  /\ result = <<"a", "-", "a", "n", "d", "-", "b">>

=============================================================================
